---- MODULE Spec2Model ----
(***************************************************************************)
(* Streaming speech segmentation of the Kyutai/Moshi ASR step              *)
(* (src/steps/asr/kyutai_asr_step.py): the MoshiASR session, its           *)
(* websocket callbacks, the flush protocol and the PCM framing; the step's  *)
(* input handler (KyutaiASRStep._handle_input_message) with the message    *)
(* kinds of src/backend/messages/base_message.py; and the step runtime of  *)
(* src/pipeline_framework.py.                                              *)
(*                                                                         *)
(* Units.  Probabilities are fixed-point integers in units of 1/Scale.     *)
(* Times are milliseconds.  A transmitted frame is described by the slice  *)
(* of the decoded buffer it carries (first sample, number of samples) and  *)
(* by the offset of its timestamp from the chunk's base timestamp.         *)
(***************************************************************************)
EXTENDS Integers, Sequences, FiniteSets, TLC

\* ------------------------------------------------------------------ bounds

\* Step events are delivered while packets_received is below this cap.
MaxRecv == 14
\* Audio chunks are processed while packets_sent stays within this cap.
MaxSent == 3
\* Largest number of whole frames in one PCM buffer.
MaxFrames == 2
\* Of two concurrent sessions, Step events are delivered to the second one
\* while its packets_received is below this cap.
MaxRecvOther == 2
\* Messages handed to Pipeline.send_message.
MaxSend == 3
\* Calls of stop() on one step.
MaxStops == 2
\* _message_loop tasks of one step that a later start() left running: start()
\* is called on a step whose task is pending while there are fewer than this.
MaxOrphans == 0

\* Calls of stop() on each step that Pipeline.stop makes.
MaxPipelineStops == 1

\* Replaced tasks of a step alive at once, where start() is called on a
\* running step.
MaxRestarts == 1
\* Significant bits of a float, and the binary places that are kept.
Precision == 3
UnitBits == 7
\* dt of the filter under test, and the updates it gets.
MaxDt == 3
MaxUpdates == 3
\* Frames of speech the session sends to the engine that answers each.
MaxEngineSent == 13

\* ------------------------------------------------------- program constants

SAMPLE_RATE == 24000
SAMPLES_PER_FRAME == 1920
FLUSH_LENGTH == 12
\* self.steps_to_wait = 10
WARMUP_STEPS == 10
\* attack_time=0.01, release_time=0.01 (seconds), here in milliseconds
ATTACK_TIME_MS == 10
RELEASE_TIME_MS == 10

\* Fixed-point scale of a probability: 1.0 is Scale.
Scale == 256 * 100
FRAME_TIME_MS == (SAMPLES_PER_FRAME * 1000) \div SAMPLE_RATE
PAUSE_THRESHOLD == (9 * Scale) \div 10
VAD_THRESHOLD == (8 * Scale) \div 10

\* ------------------------------------------------------------------ inputs

\* Word tokens and start offsets (tenths of a second) the remote engine sends.
Tokens == {"bonjour", "monde"}
StartTimes == {5, 9}
\* prs[2] of a Step event: speech (0.0), in the hysteresis band (0.85),
\* pause (0.95).
Probs == {0, (85 * Scale) \div 100, (95 * Scale) \div 100}
\* A Step event's prs: fewer than three components, or one with prs[2] = p.
NoPrs == 0 - 1
StepPrs == {NoPrs} \cup Probs
\* Message types that on_message only logs.
OtherTypes == {"EndWord", "Marker"}
\* Byte lengths of the PCM buffers offered: k whole frames, plus 0, 1 or
\* SAMPLES_PER_FRAME - 1 trailing samples, plus possibly one odd byte.
ChunkBytes ==
  { 2 * (k * SAMPLES_PER_FRAME + r) + o :
      k \in 0..MaxFrames, r \in {0, 1, SAMPLES_PER_FRAME - 1}, o \in {0, 1} }

\* ------------------------------------------------------------------- state

VARIABLES
  moshi_asr,    \* KyutaiASRStep.moshi_asr is an object (TRUE) or None (FALSE)
  asr,          \* the MoshiASR object's fields
  text_buffer,  \* KyutaiASRStep.text_buffer
  last,         \* the operation that produced this state, with its input
  pre,          \* the MoshiASR fields before that operation
  emitted,      \* the events that operation put on the output queue
  frames,       \* the frames that operation handed to the websocket
  entry,        \* packets_sent / packets_received when _enter_flushing_mode was called
  scen,         \* how much of the end-to-end scenario has been replayed
  message,            \* the message _handle_input_message was last called with
  current_client_id,  \* KyutaiASRStep.current_client_id
  sessions,     \* two ASR steps, one per client: each one's MoshiASR object
  solo,         \* client "A"'s MoshiASR object, had only "A"'s events occurred
  actor,        \* the client whose session the last event was delivered to
  input_queue,  \* PipelineStep.input_queue of each step: the messages waiting
  own_output,   \* the asyncio.Queue each step's __init__ made for its output
  output_queue, \* PipelineStep.output_queue of each step: which queue it is
  is_running,   \* PipelineStep.is_running of each step
  _task,        \* PipelineStep._task of each step: None, a pending task, a done one
  orphans,      \* _message_loop tasks of a step that _task no longer refers to
  connections,  \* Pipeline.connections
  cleanups,     \* calls of cleanup() on each step so far
  init_ok,      \* None before the step's first start(); then whether one of
                \* its start() calls had init() return True and returned True
  nsent,        \* messages handed to Pipeline.send_message so far
  enq,          \* every message ever put on each step's input queue, in order
  handled,      \* the messages each step's process_message was called with
  forwarded,    \* the messages each step's _message_loop put on its output
  late,         \* whether process_message of each step was called after a
                \* stop() of that step had returned
  stopping,     \* the steps a Pipeline.stop() in progress has still to stop
  Pipeline_is_running,  \* Pipeline.is_running
  errored,      \* a transport error has occurred since connect() was last called
  abandoned,    \* the connection closed during the flush that is on, or that
                \* the last operation ended
  dropped,      \* frames of PCM buffers offered so far that were not handed to
                \* the websocket
  rx,           \* the websocket's thread: where it is in on_message, with its
                \* locals
  tx,           \* the step's thread: where it is in _process_audio_chunk,
                \* reset or disconnect, with its locals
  ema,           \* the ExponentialMovingAverage under test, with its inputs
  timed_out     \* connect() raised in init(), and connect() was not called
                \* again since

\* The variables of the ASR step's input handler.
stepvars == <<message, current_client_id>>

\* The variables of the two concurrent sessions.
sessvars == <<sessions, solo, actor>>

\* The variables of the transport's error and reconnection history.
transvars == <<errored, abandoned, dropped, timed_out>>

\* The two threads that act on one MoshiASR object.
threadvars == <<rx, tx>>

\* The smoothing filter taken alone.
emavars == <<ema>>

\* The ASR side's variables, the filter under test excepted.
asrvars_but_ema == <<moshi_asr, asr, text_buffer, last, pre, emitted, frames, entry, scen,
                     message, current_client_id, sessions, solo, actor,
                     errored, abandoned, dropped, timed_out, rx, tx>>

\* The variables of the pipeline runtime.
pipevars == <<input_queue, own_output, output_queue, is_running, _task, orphans,
              connections, cleanups, init_ok, nsent, enq, handled,
              forwarded, late, stopping, Pipeline_is_running>>

vars == <<moshi_asr, asr, text_buffer, last, pre, emitted, frames, entry, scen,
          message, current_client_id, sessions, solo, actor,
          input_queue, own_output, output_queue, is_running, _task, orphans,
          connections, cleanups, init_ok, nsent, enq, handled,
          forwarded, late, stopping, Pipeline_is_running, errored, abandoned, dropped, rx, tx, ema, timed_out>>

\* --------------------------------------------------------------- ASR events

StartEvent ==
  [type |-> "start", data |-> [reason |-> "voice_detected"],
   timestamp |-> "time.time()", reason |-> "voice_detected"]

EndEvent ==
  [type |-> "end", data |-> [reason |-> "pause_detected"],
   timestamp |-> "time.time()", reason |-> "pause_detected"]

TextEvent(text) ==
  [type |-> "text", data |-> text, timestamp |-> "time.time()", text |-> text]

\* ----------------------------------------------------------------- messages

\* class MessageType(Enum): the names of its members
MessageType ==
  {"DATA", "ERROR", "CONTROL", "TOOL_CALL", "TOOL_RESPONSE", "TOOL_REGISTRATION"}

\* MessageType.<name>: a member, or AttributeError
HasMember(name) == name \in MessageType

None == "None"

\* A payload is described by its Python type and its length.
Bytes(nbytes) == [py |-> "bytes", len |-> nbytes]
Text(nchars) == [py |-> "str", len |-> nchars]
NoData == [py |-> "NoneType", len |-> 0]

\* bool(data)
Truthy(data) == data.py # "NoneType" /\ data.len > 0

\* A metadata dict is the set of its items; None and {} are both falsy.
NoMetadata == {}
ClientMetadata(client_id) == {<<"client_id", client_id>>}

\* metadata.get(key)
Get(metadata, key) ==
  IF \E item \in metadata : item[1] = key
  THEN (CHOOSE item \in metadata : item[1] = key)[2]
  ELSE None

\* @dataclass Message(type, data, metadata)
Message(type, data, metadata) == [type |-> type, data |-> data, metadata |-> metadata]

\* InputMessage(data, metadata): a Message of type MessageType.DATA
InputMessage(data, metadata) == Message("DATA", data, metadata)

\* No message handled yet.
NoMessage == Message(None, NoData, NoMetadata)

\* The clients whose audio reaches the step.
ClientIds == {"A", "B"}

\* The messages offered to the ASR step: audio of one frame, of one frame and
\* one sample, and of two frames, as an InputMessage or under another kind;
\* a base64 text instead of bytes; an empty buffer.
AudioPayloads ==
  {Bytes(2 * n) : n \in {SAMPLES_PER_FRAME, SAMPLES_PER_FRAME + 1, 2 * SAMPLES_PER_FRAME}}
StepMessages ==
  {InputMessage(d, ClientMetadata(c)) : d \in AudioPayloads, c \in ClientIds}
    \cup {InputMessage(d, NoMetadata) : d \in {Bytes(2 * SAMPLES_PER_FRAME), Text(4), Bytes(0)}}
    \cup {Message("CONTROL", Bytes(2 * SAMPLES_PER_FRAME), ClientMetadata("A"))}

\* ---------------------------------------------------------------------- EMA

RECURSIVE Pow2(_)
Pow2(n) == IF n = 0 THEN 1 ELSE 2 * Pow2(n - 1)

\* 1 / (1 - alpha) = exp(dt / time_constant * log 2) = 2 ^ (dt / time_constant)
InvKeep(dt, time_constant) == Pow2(dt \div time_constant)

\* ExponentialMovingAverage.update: (1 - alpha) * value + alpha * new_value
EMA_update(value, dt, new_value) ==
  LET d == IF new_value > value THEN InvKeep(dt, ATTACK_TIME_MS)
                                ELSE InvKeep(dt, RELEASE_TIME_MS)
  IN  (value + (d - 1) * new_value) \div d

\* ------------------------------------------- the EMA in floating point
\*
\* ExponentialMovingAverage.update works on Python floats: every operation
\* of "(1 - alpha) * self.value + alpha * new_value" rounds its result to the
\* nearest float, ties to even.  The format here has Precision significant
\* bits instead of 53; a number is held as a count of 2^-UnitBits.

\* x / 2^s, rounded to the nearest integer, ties to even
RoundShift(x, s) ==
  LET q == x \div Pow2(s)
      r == x % Pow2(s)
  IN  IF 2 * r > Pow2(s) \/ (2 * r = Pow2(s) /\ q % 2 = 1) THEN q + 1 ELSE q

RECURSIVE BitLength(_)
BitLength(x) == IF x = 0 THEN 0 ELSE 1 + BitLength(x \div 2)

\* The float nearest to x * 2^-(UnitBits + extra), as a count of 2^-UnitBits
Float(x, extra) ==
  LET s == IF BitLength(x) - Precision > extra THEN BitLength(x) - Precision ELSE extra
  IN  RoundShift(x, s) * Pow2(s - extra)

One == Pow2(UnitBits)

fmul(x, y) == Float(x * y, UnitBits)
fadd(x, y) == Float(x + y, 0)
fsub(x, y) == Float(x - y, 0)

\* The largest r with r * r <= x
Isqrt(x) == CHOOSE r \in 0..Pow2(UnitBits + 2) : r * r <= x /\ (r + 1) * (r + 1) > x

\* math.exp(-dt / time_constant * math.log(2)): the float nearest to
\* 2 ^ -(dt / time_constant), for a time constant of 1 or 2
exp2neg(dt, time_constant) ==
  LET halves == (2 * dt) \div time_constant
  IN  IF halves % 2 = 0
      THEN Float(One \div Pow2(halves \div 2), 0)
      ELSE Float(2 * Isqrt(Pow2(2 * (UnitBits + 2) - halves)) + 1, 3)

\* ExponentialMovingAverage.update
update(value, dt, new_value, attack_time, release_time) ==
  LET alpha == IF new_value > value
               THEN fsub(One, exp2neg(dt, attack_time))
               ELSE fsub(One, exp2neg(dt, release_time))
  IN  fadd(fmul(fsub(One, alpha), value), fmul(alpha, new_value))

\* The floats in [0.5, 1]: values and targets of the filter
Floats == {x \in Pow2(UnitBits - 1)..One : Float(x, 0) = x}

\* attack_time and release_time; dt is 0..MaxDt
TimeConstants == {1, 2}

\* No filter under test.
NoEma == [value |-> 0, first |-> 0, prev |-> 0, new_value |-> 0, dt |-> 0,
          attack_time |-> 1, release_time |-> 1, n |-> 0 - 1]

\* ------------------------------------------------------------ the session

\* MoshiASR.__init__
MoshiASR_init ==
  [connected |-> FALSE, stream_active |-> FALSE, is_speaking |-> FALSE,
   last_word_time |-> 0, pause_value |-> Scale, steps_to_wait |-> WARMUP_STEPS,
   flushing_mode |-> FALSE, flushing_limit |-> 0,
   packets_sent |-> 0, packets_received |-> 0, output_queue |-> FALSE]

\* The run of one handler: the session, what it enqueued, what it sent.
Run(s) == [s |-> s, q |-> <<>>, tx |-> <<>>]

\* A KyutaiASRStep before init(): no MoshiASR object yet.
NoSession == [live |-> FALSE, s |-> MoshiASR_init, q |-> <<>>, tx |-> <<>>]

\* MoshiASR._enqueue_event
_enqueue_event(r, event) ==
  IF r.s.output_queue THEN [r EXCEPT !.q = Append(@, event)] ELSE r

\* Mutant: the frame is sent whether or not the session is connected.
_send_audio_unguarded(r, frame) ==
  [r EXCEPT !.tx = Append(@, frame), !.s.packets_sent = @ + 1]

\* MoshiASR._send_audio
_send_audio(r, frame) ==
  IF ~r.s.connected THEN r
  ELSE [r EXCEPT !.tx = Append(@, frame), !.s.packets_sent = @ + 1]

\* silence_samples = [0.0] * SAMPLES_PER_FRAME, stamped time.time()
SilenceFrame == [kind |-> "silence", first |-> 0, n |-> SAMPLES_PER_FRAME, ts |-> 0]

\* Mutant: the target misses the last silence frame.
FlushingLimit_short(packets_sent) == packets_sent + FLUSH_LENGTH - 1

\* Mutant: the target lies one past the last silence frame.
FlushingLimit_long(packets_sent) == packets_sent + FLUSH_LENGTH + 1

\* self.flushing_limit = self.packets_sent + self.silence_packets_count
FlushingLimit(packets_sent) == packets_sent + FLUSH_LENGTH

RECURSIVE SendSilence(_, _)
SendSilence(r, i) ==
  IF i = 0 THEN r ELSE SendSilence(_send_audio(r, SilenceFrame), i - 1)

\* MoshiASR._enter_flushing_mode
_enter_flushing_mode(r) ==
  SendSilence([r EXCEPT !.s.flushing_mode = TRUE,
                        !.s.flushing_limit = FlushingLimit(r.s.packets_sent)],
              FLUSH_LENGTH)

\* Mutant: the flush also ends once packets_received has passed the target.
FlushDone_past(r) ==
  IF r.s.flushing_mode /\ r.s.flushing_limit <= r.s.packets_received
  THEN LET r1 == [r EXCEPT !.s.is_speaking = FALSE, !.s.flushing_mode = FALSE]
       IN  IF r1.s.output_queue THEN [r1 EXCEPT !.q = Append(@, EndEvent)] ELSE r1
  ELSE r

\* Mutant: the end of a flush leaves is_speaking set.
FlushDone_keeps_speaking(r) ==
  IF r.s.flushing_mode /\ r.s.flushing_limit = r.s.packets_received
  THEN LET r1 == [r EXCEPT !.s.flushing_mode = FALSE]
       IN  IF r1.s.output_queue THEN _enqueue_event(r1, EndEvent) ELSE r1
  ELSE r

\* on_message, the closing test: if self.flushing_mode: if limit == received
FlushDone(r) ==
  IF r.s.flushing_mode /\ r.s.flushing_limit = r.s.packets_received
  THEN LET r1 == [r EXCEPT !.s.is_speaking = FALSE, !.s.flushing_mode = FALSE]
       IN  IF r1.s.output_queue THEN _enqueue_event(r1, EndEvent) ELSE r1
  ELSE r

\* Mutant: a Word leaves flushing_mode set.
OnWord_keeps_flushing(r, word_text, start_time) ==
  LET r2 == [r EXCEPT !.s.pause_value = 0]
      r3 == IF r2.s.output_queue THEN _enqueue_event(r2, TextEvent(word_text)) ELSE r2
  IN  FlushDone([r3 EXCEPT !.s.last_word_time = start_time, !.s.is_speaking = TRUE])

\* Mutant: a Word leaves the smoothed probability as it is.
OnWord_keeps_pause(r, word_text, start_time) ==
  LET r1 == IF r.s.flushing_mode
            THEN LET c == [r EXCEPT !.s.flushing_mode = FALSE]
                 IN  IF ~c.s.is_speaking THEN _enqueue_event(c, StartEvent) ELSE c
            ELSE r
      r3 == IF r1.s.output_queue THEN _enqueue_event(r1, TextEvent(word_text)) ELSE r1
  IN  FlushDone([r3 EXCEPT !.s.last_word_time = start_time, !.s.is_speaking = TRUE])

\* on_message, message_type == 'Word'
OnWord(r, word_text, start_time) ==
  LET r1 == IF r.s.flushing_mode
            THEN LET c == [r EXCEPT !.s.flushing_mode = FALSE]
                 IN  IF ~c.s.is_speaking THEN _enqueue_event(c, StartEvent) ELSE c
            ELSE r
      r2 == [r1 EXCEPT !.s.pause_value = 0]
      r3 == IF r2.s.output_queue THEN _enqueue_event(r2, TextEvent(word_text)) ELSE r2
  IN  FlushDone([r3 EXCEPT !.s.last_word_time = start_time, !.s.is_speaking = TRUE])

\* Mutant: the test "if not self.flushing_mode" is missing.
OnStepProb_reenters(r, p) ==
  LET r1 == [r EXCEPT !.s.pause_value = EMA_update(@, FRAME_TIME_MS, p)]
  IN  IF r1.s.pause_value > PAUSE_THRESHOLD /\ r1.s.is_speaking
      THEN _enter_flushing_mode(r1)
      ELSE IF r1.s.pause_value < VAD_THRESHOLD
      THEN LET r2 == [r1 EXCEPT !.s.pause_value = 0, !.s.flushing_mode = FALSE]
           IN  IF ~r2.s.is_speaking THEN _enqueue_event(r2, StartEvent) ELSE r2
      ELSE r1

\* Mutant: below the speech threshold the smoothed probability is kept.
OnStepProb_keeps_pause(r, p) ==
  LET r1 == [r EXCEPT !.s.pause_value = EMA_update(@, FRAME_TIME_MS, p)]
  IN  IF r1.s.pause_value > PAUSE_THRESHOLD /\ r1.s.is_speaking
      THEN (IF ~r1.s.flushing_mode THEN _enter_flushing_mode(r1) ELSE r1)
      ELSE IF r1.s.pause_value < VAD_THRESHOLD
      THEN LET r2 == [r1 EXCEPT !.s.flushing_mode = FALSE]
           IN  IF ~r2.s.is_speaking THEN _enqueue_event(r2, StartEvent) ELSE r2
      ELSE r1

\* Mutant: below the speech threshold a flush that is on is not cancelled.
OnStepProb_keeps_flushing(r, p) ==
  LET r1 == [r EXCEPT !.s.pause_value = EMA_update(@, FRAME_TIME_MS, p)]
  IN  IF r1.s.pause_value > PAUSE_THRESHOLD /\ r1.s.is_speaking
      THEN (IF ~r1.s.flushing_mode THEN _enter_flushing_mode(r1) ELSE r1)
      ELSE IF r1.s.pause_value < VAD_THRESHOLD
      THEN LET r2 == [r1 EXCEPT !.s.pause_value = 0]
           IN  IF ~r2.s.is_speaking THEN _enqueue_event(r2, StartEvent) ELSE r2
      ELSE r1

\* on_message, message_type == 'Step', after the warm-up: the EMA and the
\* two thresholds
OnStepProb(r, p) ==
  LET r1 == [r EXCEPT !.s.pause_value = EMA_update(@, FRAME_TIME_MS, p)]
  IN  IF r1.s.pause_value > PAUSE_THRESHOLD /\ r1.s.is_speaking
      THEN (IF ~r1.s.flushing_mode THEN _enter_flushing_mode(r1) ELSE r1)
      ELSE IF r1.s.pause_value < VAD_THRESHOLD
      THEN LET r2 == [r1 EXCEPT !.s.pause_value = 0, !.s.flushing_mode = FALSE]
           IN  IF ~r2.s.is_speaking THEN _enqueue_event(r2, StartEvent) ELSE r2
      ELSE r1

\* Mutant: a Step of the warm-up is counted and integrated as well.
OnStep_warmup_integrates(r, prs) ==
  LET r1 == [r EXCEPT !.s.packets_received = @ + 1]
  IN  IF prs # NoPrs
      THEN IF r1.s.steps_to_wait > 0
           THEN FlushDone(OnStepProb([r1 EXCEPT !.s.steps_to_wait = @ - 1], prs))
           ELSE FlushDone(OnStepProb(r1, prs))
      ELSE FlushDone(r1)

\* on_message, message_type == 'Step'
OnStep(r, prs) ==
  LET r1 == [r EXCEPT !.s.packets_received = @ + 1]
  IN  IF prs # NoPrs
      THEN IF r1.s.steps_to_wait > 0
           THEN [r1 EXCEPT !.s.steps_to_wait = @ - 1]
           ELSE FlushDone(OnStepProb(r1, prs))
      ELSE FlushDone(r1)

\* on_message, 'EndWord', 'Marker' and unknown types: logged only
OnOther(r) == FlushDone(r)

\* -------------------------------------------------------------- PCM framing

\* struct.unpack(f'<{num_samples}h', audio_chunk) raises unless the buffer is
\* exactly 2 * num_samples bytes long.
UnpackOk(nbytes) == nbytes = 2 * (nbytes \div 2)

\* Mutant: every frame of a chunk is stamped with the base timestamp.
AudioFrame_base_ts(first, n, packet_index) ==
  [kind |-> "pcm", first |-> first, n |-> n, ts |-> 0]

AudioFrame(first, n, packet_index) ==
  [kind |-> "pcm", first |-> first, n |-> n, ts |-> packet_index * FRAME_TIME_MS]

Min(a, b) == IF a < b THEN a ELSE b

\* for i in range(0, len(audio_float32), SAMPLES_PER_FRAME)
RECURSIVE SendChunks(_, _, _, _)
SendChunks(r, i, packet_index, num_samples) ==
  IF i >= num_samples THEN r
  ELSE SendChunks(
         _send_audio(r, AudioFrame(i, Min(SAMPLES_PER_FRAME, num_samples - i),
                                   packet_index)),
         i + SAMPLES_PER_FRAME, packet_index + 1, num_samples)

\* MoshiASR._process_audio_chunk
_process_audio_chunk(r, nbytes) ==
  IF ~r.s.connected \/ ~r.s.stream_active THEN r
  ELSE IF ~UnpackOk(nbytes) THEN r
  ELSE SendChunks(r, 0, 0, nbytes \div 2)

\* ------------------------------------------------------- the scenario monitor

ScenarioProb == (95 * Scale) \div 100
ScenarioLen == WARMUP_STEPS + 1 + FLUSH_LENGTH

\* The i-th event of the end-to-end scenario of the specification.
ScenarioEvent(i) ==
  IF i = WARMUP_STEPS + 1
  THEN [op |-> "Word", text |-> "bonjour", start_time |-> 5, prs |-> NoPrs, nbytes |-> 0]
  ELSE [op |-> "Step", text |-> "", start_time |-> 0, prs |-> ScenarioProb, nbytes |-> 0]

ScenAfter(op) ==
  IF scen >= 0 /\ scen < ScenarioLen /\ op = ScenarioEvent(scen + 1)
     /\ (scen > 0 \/ (asr.output_queue /\ asr.packets_sent = 0))
  THEN scen + 1 ELSE -1

\* ------------------------------------------------- the pipeline's structure

\* The steps added to the Pipeline (add_step), upstream first; "X" is a name
\* no step was added under.
Steps == {"A", "B"}
StepNames == Steps \cup {"X"}

\* A queue object: the input or the output queue a step's __init__ created.
InputOf(s) == [step |-> s, end |-> "input"]
OutputOf(s) == [step |-> s, end |-> "output"]

\* The order in which the steps were added to the Pipeline.
StepOrder == <<"A", "B">>

\* -------------------------------------------------------------- the threads

\* A thread that is in none of the object's methods.  pc names the source
\* line of the statement the thread executes next.
RxIdle == [pc |-> "idle", prs |-> NoPrs, i |-> 0, target |-> 0 - 1]
TxIdle == [pc |-> "idle", left |-> 0, offered |-> 0]

\* ------------------------------------------------------------------ actions

Op(name) == [op |-> name, text |-> "", start_time |-> 0, prs |-> NoPrs, nbytes |-> 0]

Snapshot ==
  [is_speaking |-> asr.is_speaking, flushing_mode |-> asr.flushing_mode,
   packets_sent |-> asr.packets_sent, packets_received |-> asr.packets_received,
   steps_to_wait |-> asr.steps_to_wait, flushing_limit |-> asr.flushing_limit,
   connected |-> asr.connected, stream_active |-> asr.stream_active]

NoEntry == [sent |-> -1, received |-> -1]

\* The session and the account of the operation after a handler run r of
\* operation op.
Account(op, r) ==
  /\ asr' = r.s
  /\ last' = op
  /\ pre' = Snapshot
  /\ emitted' = r.q
  /\ frames' = r.tx
  /\ entry' = IF op.op = "Step" /\ Len(r.tx) > 0
              THEN [sent |-> asr.packets_sent, received |-> r.s.packets_received]
              ELSE IF asr.flushing_mode THEN entry ELSE NoEntry
  /\ UNCHANGED sessvars
  /\ UNCHANGED pipevars
  /\ UNCHANGED threadvars
  /\ UNCHANGED emavars

\* The bookkeeping after a handler run r of operation op.
Bookkeep(op, r) ==
  /\ Account(op, r)
  /\ UNCHANGED transvars

\* An operation on the MoshiASR object that is not a handled input message.
Record(op, r) ==
  /\ Bookkeep(op, r)
  /\ UNCHANGED stepvars

Init ==
  /\ moshi_asr = FALSE
  /\ asr = MoshiASR_init
  /\ text_buffer = <<>>
  /\ last = Op("__init__")
  /\ pre = [is_speaking |-> FALSE, flushing_mode |-> FALSE, packets_sent |-> 0,
            packets_received |-> 0, steps_to_wait |-> WARMUP_STEPS,
            flushing_limit |-> 0, connected |-> FALSE, stream_active |-> FALSE]
  /\ emitted = <<>>
  /\ frames = <<>>
  /\ entry = NoEntry
  /\ scen = -1
  /\ message = NoMessage
  /\ current_client_id = None
  /\ sessions = [c \in ClientIds |-> NoSession]
  /\ solo = NoSession
  /\ actor = None
  /\ input_queue = [s \in Steps |-> <<>>]
  /\ own_output = [s \in Steps |-> <<>>]
  /\ output_queue = [s \in Steps |-> OutputOf(s)]
  /\ is_running = [s \in Steps |-> FALSE]
  /\ _task = [s \in Steps |-> None]
  /\ orphans = [s \in Steps |-> 0]
  /\ connections = <<>>
  /\ cleanups = [s \in Steps |-> 0]
  /\ init_ok = [s \in Steps |-> None]
  /\ nsent = 0
  /\ enq = [s \in Steps |-> <<>>]
  /\ handled = [s \in Steps |-> <<>>]
  /\ forwarded = [s \in Steps |-> <<>>]
  /\ late = [s \in Steps |-> FALSE]
  /\ stopping = <<>>
  /\ Pipeline_is_running = FALSE
  /\ errored = FALSE
  /\ abandoned = FALSE
  /\ dropped = 0
  /\ rx = RxIdle
  /\ tx = TxIdle
  /\ ema = NoEma
  /\ timed_out = FALSE

\* MoshiASR.set_output_queue
set_output_queue(s, queue) == [s EXCEPT !.output_queue = queue]

\* MoshiASR.connect: on_open fires within the timeout (opened), or the
\* timeout passes and connect raises
connect_session(s, opened) == [s EXCEPT !.connected = opened]

\* KyutaiASRStep.init: a new MoshiASR, bound to the step's output queue
\* (attached: the step has one), then connected
init ==
  /\ ~moshi_asr
  /\ \E attached \in BOOLEAN, opened \in BOOLEAN :
       /\ Record(Op("init"),
                 Run(connect_session(set_output_queue(MoshiASR_init, attached), opened)))
       /\ scen' = IF attached /\ opened THEN 0 ELSE -1
  /\ moshi_asr' = TRUE
  /\ UNCHANGED text_buffer

\* on_message, type "Ready"
on_message_Ready ==
  /\ asr.connected
  /\ Record(Op("Ready"), Run([asr EXCEPT !.stream_active = TRUE]))
  /\ scen' = IF scen = 0 THEN 0 ELSE -1
  /\ UNCHANGED <<moshi_asr, text_buffer>>

on_message_Word ==
  /\ asr.connected
  /\ \E w \in Tokens, t \in StartTimes :
       LET op == [op |-> "Word", text |-> w, start_time |-> t, prs |-> NoPrs, nbytes |-> 0]
       IN  /\ Record(op, OnWord(Run(asr), w, t))
           /\ scen' = ScenAfter(op)
  /\ UNCHANGED <<moshi_asr, text_buffer>>

on_message_Step ==
  /\ asr.connected
  /\ asr.packets_received < MaxRecv
  /\ \E prs \in StepPrs :
       LET op == [op |-> "Step", text |-> "", start_time |-> 0, prs |-> prs, nbytes |-> 0]
       IN  /\ Record(op, OnStep(Run(asr), prs))
           /\ scen' = ScenAfter(op)
  /\ UNCHANGED <<moshi_asr, text_buffer>>

on_message_Other ==
  /\ asr.connected
  /\ \E ty \in OtherTypes :
       /\ Record(Op(ty), OnOther(Run(asr)))
       /\ scen' = -1
  /\ UNCHANGED <<moshi_asr, text_buffer>>

\* MoshiASR.on_close
on_close ==
  /\ asr.connected
  /\ Record(Op("on_close"),
            Run([asr EXCEPT !.connected = FALSE, !.stream_active = FALSE]))
  /\ scen' = -1
  /\ UNCHANGED <<moshi_asr, text_buffer>>

\* Frames a buffer of nbytes bytes is sliced into, when it decodes.
FrameCount(nbytes) == (nbytes \div 2 + SAMPLES_PER_FRAME - 1) \div SAMPLES_PER_FRAME

\* A call of MoshiASR._process_audio_chunk with a buffer of nbytes bytes
process_audio_chunk ==
  /\ moshi_asr
  /\ \E nbytes \in ChunkBytes :
       /\ asr.packets_sent + FrameCount(nbytes) <= MaxSent
       /\ Record([op |-> "audio", text |-> "", start_time |-> 0, prs |-> NoPrs,
                  nbytes |-> nbytes],
                 _process_audio_chunk(Run(asr), nbytes))
  /\ scen' = -1
  /\ UNCHANGED <<moshi_asr, text_buffer>>

\* MoshiASR.disconnect
disconnect(s) ==
  [s EXCEPT !.connected = FALSE, !.stream_active = FALSE, !.flushing_mode = FALSE,
            !.packets_sent = 0, !.packets_received = 0]

\* KyutaiASRStep.cleanup
cleanup ==
  /\ moshi_asr
  /\ Record(Op("cleanup"), Run(disconnect(asr)))
  /\ moshi_asr' = FALSE
  /\ text_buffer' = <<>>
  /\ scen' = -1

\* MoshiASR.reset
reset(s) ==
  [s EXCEPT !.is_speaking = FALSE, !.pause_value = Scale,
            !.flushing_limit = 0, !.flushing_mode = FALSE]

\* KyutaiASRStep.reset_transcription
reset_transcription ==
  /\ moshi_asr
  /\ Record(Op("reset"), Run(reset(asr)))
  /\ text_buffer' = <<>>
  /\ scen' = -1
  /\ UNCHANGED moshi_asr

\* The ASR step as its input handler sees it: the run on the MoshiASR object,
\* whether the object exists, and the client the replies are routed to.
StepState == [r |-> Run(asr), moshi_asr |-> moshi_asr, current_client_id |-> current_client_id]

\* KyutaiASRStep._handle_input_message.  The kind check names
\* MessageType.INPUT; looking up a name the Enum does not have raises
\* AttributeError, which the handler's own except clause logs.
_handle_input_message(st, m) ==
  IF ~HasMember("INPUT") THEN st
  ELSE IF m.type # "INPUT" THEN st
  ELSE IF ~Truthy(m.data) THEN st
  ELSE LET st1 == IF m.metadata # NoMetadata
                  THEN [st EXCEPT !.current_client_id = Get(m.metadata, "client_id")]
                  ELSE st
       IN  IF ~st1.moshi_asr THEN st1
           ELSE IF m.data.py = "bytes"
                THEN [st1 EXCEPT !.r = _process_audio_chunk(@, m.data.len)]
                ELSE st1

\* The step's worker hands a message to _handle_input_message
handle_input_message ==
  \E m \in StepMessages :
    LET st == _handle_input_message(StepState, m)
    IN  /\ asr.packets_sent + FrameCount(m.data.len) <= MaxSent
        /\ Bookkeep([op |-> "handle", text |-> "", start_time |-> 0, prs |-> NoPrs,
                     nbytes |-> m.data.len], st.r)
        /\ message' = m
        /\ current_client_id' = st.current_client_id
        /\ scen' = -1
        /\ UNCHANGED <<moshi_asr, text_buffer>>

Next ==
  \/ init
  \/ on_message_Ready
  \/ on_message_Word
  \/ on_message_Step
  \/ on_message_Other
  \/ on_close
  \/ process_audio_chunk
  \/ cleanup
  \/ reset_transcription

Spec == Init /\ [][Next]_vars

\* The ASR step inside a pipeline: audio reaches the MoshiASR object only
\* through the step's input handler.
StepNext ==
  \/ init
  \/ on_message_Ready
  \/ on_message_Word
  \/ on_close
  \/ handle_input_message
  \/ reset_transcription
  \/ cleanup

StepSpec == Init /\ [][StepNext]_vars

\* ----------------------------------------------------- the filter alone

\* ExponentialMovingAverage(attack_time, release_time, initial_value), to be
\* updated toward the constant new_value every dt
ema_init ==
  /\ ema = NoEma
  /\ \E v \in Floats, t \in Floats, dt \in 0..MaxDt,
        a \in TimeConstants, r \in TimeConstants :
       ema' = [value |-> v, first |-> v, prev |-> v, new_value |-> t, dt |-> dt,
               attack_time |-> a, release_time |-> r, n |-> 0]
  /\ UNCHANGED asrvars_but_ema
  /\ UNCHANGED pipevars

\* ExponentialMovingAverage.update(dt, new_value)
ema_update ==
  /\ ema.n >= 0 /\ ema.n < MaxUpdates
  /\ ema' = [ema EXCEPT
               !.value = update(ema.value, ema.dt, ema.new_value,
                                ema.attack_time, ema.release_time),
               !.prev = ema.value,
               !.n = @ + 1]
  /\ UNCHANGED asrvars_but_ema
  /\ UNCHANGED pipevars

EmaNext ==
  \/ ema_init
  \/ ema_update

EmaSpec == Init /\ [][EmaNext]_vars

\* ------------------------------------------- the transport and reconnection

\* The MoshiASR object over several connections: connect() may be called
\* again on the same object after the websocket closed; the flags, the
\* counters and the flush target are those the object already has.

\* An operation on the MoshiASR object with its effect on the transport's
\* history: error tells whether it was a transport error, connecting whether
\* it was a call of connect().
Transport(op, r, error, connecting) ==
  /\ Account(op, r)
  /\ errored' = IF connecting THEN FALSE ELSE (errored \/ error)
  /\ timed_out' = IF connecting THEN FALSE ELSE timed_out
  /\ abandoned' = (asr.flushing_mode /\ (abandoned \/ op.op = "on_close"))
  /\ dropped' = IF op.op = "audio" THEN dropped + FrameCount(op.nbytes) - Len(r.tx)
                ELSE dropped
  /\ scen' = -1
  /\ UNCHANGED <<moshi_asr, text_buffer>>
  /\ UNCHANGED stepvars

\* MoshiASR.connect: returns at once when already connected; otherwise a new
\* websocket, and on_open fires within the timeout (opened) or connect raises
connect(s, opened) == IF s.connected THEN s ELSE connect_session(s, opened)

\* KyutaiASRStep.init, the step having an output queue
transport_init ==
  /\ ~moshi_asr
  /\ \E opened \in BOOLEAN :
       /\ Account(Op("init"),
                  Run(connect(set_output_queue(MoshiASR_init, TRUE), opened)))
       /\ errored' = FALSE
       /\ abandoned' = FALSE
       /\ timed_out' = ~opened
       /\ dropped' = 0
  /\ moshi_asr' = TRUE
  /\ scen' = -1
  /\ UNCHANGED text_buffer
  /\ UNCHANGED stepvars

\* MoshiASR.connect called again on the object
transport_connect ==
  /\ moshi_asr
  /\ \E opened \in BOOLEAN :
       Transport(Op("connect"), Run(connect(asr, opened)), FALSE, TRUE)

\* MoshiASR.on_open, called by the websocket's thread that connect() started
\* and left running when it raised: the connection opens after the timeout
transport_on_open ==
  /\ moshi_asr /\ ~asr.connected /\ timed_out
  /\ Transport(Op("on_open"), Run([asr EXCEPT !.connected = TRUE]), FALSE, FALSE)

transport_Ready ==
  /\ moshi_asr /\ asr.connected
  /\ Transport(Op("Ready"), Run([asr EXCEPT !.stream_active = TRUE]), FALSE, FALSE)

transport_Word ==
  /\ moshi_asr /\ asr.connected
  /\ LET op == ScenarioEvent(WARMUP_STEPS + 1)
     IN  Transport(op, OnWord(Run(asr), op.text, op.start_time), FALSE, FALSE)

transport_Step ==
  /\ moshi_asr /\ asr.connected
  /\ asr.packets_received < MaxRecv
  /\ \E prs \in {0, ScenarioProb} :
       Transport([op |-> "Step", text |-> "", start_time |-> 0, prs |-> prs, nbytes |-> 0],
                 OnStep(Run(asr), prs), FALSE, FALSE)

\* MoshiASR.on_error: the error is logged
on_error(s) == s

transport_on_error ==
  /\ moshi_asr /\ asr.connected
  /\ Transport(Op("on_error"), Run(on_error(asr)), TRUE, FALSE)

transport_on_close ==
  /\ moshi_asr /\ asr.connected
  /\ Transport(Op("on_close"),
               Run([asr EXCEPT !.connected = FALSE, !.stream_active = FALSE]),
               FALSE, FALSE)

\* MoshiASR._send_audio when self.ws.send raises: the except clause logs the
\* error; the frame is not sent and packets_sent is not incremented
_send_audio_raising(r, frame) == r

\* The byte lengths of the buffers offered: one frame, two frames.
TransportChunks == {2 * k * SAMPLES_PER_FRAME : k \in 1..MaxFrames}

\* MoshiASR._process_audio_chunk
transport_audio ==
  /\ moshi_asr
  /\ \E nbytes \in TransportChunks :
       /\ asr.packets_sent + dropped + FrameCount(nbytes) <= MaxSent
       /\ Transport([op |-> "audio", text |-> "", start_time |-> 0, prs |-> NoPrs,
                     nbytes |-> nbytes],
                    _process_audio_chunk(Run(asr), nbytes), FALSE, FALSE)

\* MoshiASR._process_audio_chunk with a one-frame buffer, the websocket's
\* send raising
transport_send_fails ==
  /\ moshi_asr /\ asr.connected /\ asr.stream_active
  /\ Transport([op |-> "send_fails", text |-> "", start_time |-> 0, prs |-> NoPrs,
                nbytes |-> 2 * SAMPLES_PER_FRAME],
               _send_audio_raising(Run(asr), AudioFrame(0, SAMPLES_PER_FRAME, 0)),
               TRUE, FALSE)

TransportNext ==
  \/ transport_on_open
  \/ transport_init
  \/ transport_connect
  \/ transport_Ready
  \/ transport_Word
  \/ transport_Step
  \/ transport_on_error
  \/ transport_on_close
  \/ transport_audio
  \/ transport_send_fails

TransportSpec == Init /\ [][TransportNext]_vars

\* ------------------------------------------------ the remote engine alive

\* The session on a connection that stays up, with a remote engine that
\* answers every frame it is sent with one Step event, in order: a Step can
\* be received while packets_received is below packets_sent.  Once a flush is
\* on, the engine sends no Word and no Step that takes the smoothed
\* probability below vad_threshold.  reset() and disconnect() are not called.

Engine(op, r) ==
  /\ moshi_asr
  /\ Record(op, r)
  /\ scen' = -1
  /\ UNCHANGED <<moshi_asr, text_buffer>>

\* KyutaiASRStep.init, the step having an output queue: connect() succeeds
engine_init ==
  /\ ~moshi_asr
  /\ Record(Op("init"), Run(connect(set_output_queue(MoshiASR_init, TRUE), TRUE)))
  /\ moshi_asr' = TRUE
  /\ scen' = -1
  /\ UNCHANGED text_buffer

engine_Ready ==
  /\ ~asr.stream_active
  /\ Engine(Op("Ready"), Run([asr EXCEPT !.stream_active = TRUE]))

\* MoshiASR._process_audio_chunk with a buffer of whole frames
engine_audio ==
  \E nbytes \in TransportChunks :
    /\ asr.packets_sent + FrameCount(nbytes) <= MaxEngineSent
    /\ Engine([op |-> "audio", text |-> "", start_time |-> 0, prs |-> NoPrs,
               nbytes |-> nbytes],
              _process_audio_chunk(Run(asr), nbytes))

engine_Word ==
  /\ ~asr.flushing_mode
  /\ Engine(ScenarioEvent(WARMUP_STEPS + 1), OnWord(Run(asr), "bonjour", 5))

\* The Step that answers the oldest frame not yet answered
engine_Step ==
  /\ asr.packets_received < asr.packets_sent
  /\ \E prs \in StepPrs :
       /\ (asr.flushing_mode /\ prs # NoPrs) =>
            EMA_update(asr.pause_value, FRAME_TIME_MS, prs) >= VAD_THRESHOLD
       /\ Engine([op |-> "Step", text |-> "", start_time |-> 0, prs |-> prs,
                  nbytes |-> 0],
                 OnStep(Run(asr), prs))

EngineNext ==
  \/ engine_init
  \/ engine_Ready
  \/ engine_audio
  \/ engine_Word
  \/ engine_Step

\* Every frame sent is answered: the Step that is due is eventually received.
EngineSpec == Init /\ [][EngineNext]_vars /\ WF_vars(engine_Step)

\* ------------------------------------------ the two threads on one session

\* on_message runs on the thread that connect() starts for the websocket
\* (lines 171-176); _process_audio_chunk, reset and disconnect run on the
\* step's thread.  The object has no lock, so the statements of the two
\* threads interleave.  A step of a thread here is one statement that reads
\* or writes a field of the object, together with the tests and the
\* statements on locals that lead to it; sending a frame and counting it is
\* one step.  The events put on the output queue are not tracked here.

At(a, t) == [a |-> a, t |-> t]
Goto(t, pc) == [t EXCEPT !.pc = pc]

\* _send_audio on the fields a: the frame goes out and is counted when the
\* session is connected
Sent(a) == IF a.connected THEN [a EXCEPT !.packets_sent = @ + 1] ELSE a

\* The statement of on_message that the websocket's thread is at, for a
\* Ready, a Word, or a Step with the pause component t.prs.
on_message_at(a, t) ==
  CASE t.pc = "203" -> At([a EXCEPT !.stream_active = TRUE], RxIdle)
    [] t.pc = "211" -> At(a, Goto(t, IF a.flushing_mode THEN "212" ELSE "217"))
    [] t.pc = "212" -> At([a EXCEPT !.flushing_mode = FALSE], Goto(t, "217"))
    [] t.pc = "217" -> At([a EXCEPT !.pause_value = 0], Goto(t, "223"))
    [] t.pc = "223" -> At([a EXCEPT !.last_word_time = 5, !.is_speaking = TRUE],
                          Goto(t, "261"))
    [] t.pc = "239" -> At([a EXCEPT !.packets_received = @ + 1], Goto(t, "242"))
    [] t.pc = "242" -> IF a.steps_to_wait > 0
                       THEN At([a EXCEPT !.steps_to_wait = @ - 1], RxIdle)
                       ELSE At([a EXCEPT !.pause_value = EMA_update(@, FRAME_TIME_MS, t.prs)],
                               Goto(t, "248"))
    [] t.pc = "248" -> At(a, Goto(t, IF a.pause_value > PAUSE_THRESHOLD /\ a.is_speaking
                                     THEN "249"
                                     ELSE IF a.pause_value < VAD_THRESHOLD THEN "254"
                                     ELSE "261"))
    [] t.pc = "249" -> At(a, Goto(t, IF ~a.flushing_mode THEN "308" ELSE "261"))
    [] t.pc = "254" -> At([a EXCEPT !.pause_value = 0], Goto(t, "255"))
    [] t.pc = "255" -> At(a, Goto(t, IF a.flushing_mode THEN "257" ELSE "261"))
    [] t.pc = "257" -> At([a EXCEPT !.flushing_mode = FALSE], Goto(t, "261"))
    [] t.pc = "308" -> At([a EXCEPT !.flushing_mode = TRUE], Goto(t, "311"))
    [] t.pc = "311" -> At([a EXCEPT !.flushing_limit = FlushingLimit(a.packets_sent)],
                          [t EXCEPT !.pc = "315", !.i = 0,
                                    !.target = FlushingLimit(a.packets_sent)])
    [] t.pc = "315" -> IF t.i = FLUSH_LENGTH THEN At(a, Goto(t, "261"))
                       ELSE At(Sent(a), [t EXCEPT !.i = @ + 1])
    [] t.pc = "261" -> At(a, IF a.flushing_mode THEN Goto(t, "262") ELSE RxIdle)
    [] t.pc = "262" -> At(a, IF a.flushing_limit = a.packets_received
                             THEN Goto(t, "264") ELSE RxIdle)
    [] t.pc = "264" -> At([a EXCEPT !.is_speaking = FALSE], Goto(t, "265"))
    [] t.pc = "265" -> At([a EXCEPT !.flushing_mode = FALSE], RxIdle)

\* The statement of _process_audio_chunk (with _send_audio), reset or
\* disconnect that the step's thread is at.
step_thread_at(a, t) ==
  CASE t.pc = "326" -> At(a, Goto(t, IF a.connected /\ a.stream_active THEN "348" ELSE "idle"))
    [] t.pc = "348" -> At(Sent(a), [t EXCEPT !.pc = IF t.left = 1 THEN "idle" ELSE "348",
                                             !.left = @ - 1])
    [] t.pc = "378" -> At([a EXCEPT !.is_speaking = FALSE], Goto(t, "379"))
    [] t.pc = "379" -> At([a EXCEPT !.pause_value = Scale], Goto(t, "380"))
    [] t.pc = "380" -> At([a EXCEPT !.flushing_limit = 0], Goto(t, "381"))
    [] t.pc = "381" -> At([a EXCEPT !.flushing_mode = FALSE], Goto(t, "idle"))
    [] t.pc = "368" -> At([a EXCEPT !.connected = FALSE], Goto(t, "369"))
    [] t.pc = "369" -> At([a EXCEPT !.stream_active = FALSE], Goto(t, "370"))
    [] t.pc = "370" -> At([a EXCEPT !.flushing_mode = FALSE], Goto(t, "371"))
    [] t.pc = "371" -> At([a EXCEPT !.packets_sent = 0], Goto(t, "372"))
    [] t.pc = "372" -> At([a EXCEPT !.packets_received = 0], Goto(t, "idle"))

\* What the threads leave alone.
ThreadsFrame ==
  /\ UNCHANGED <<text_buffer, last, pre, emitted, frames, entry, scen>>
  /\ UNCHANGED stepvars
  /\ UNCHANGED sessvars
  /\ UNCHANGED transvars
  /\ UNCHANGED pipevars
  /\ UNCHANGED emavars

\* KyutaiASRStep.init: the object is made and connected before the
\* websocket's thread delivers anything
threads_init ==
  /\ ~moshi_asr /\ asr = MoshiASR_init
  /\ asr' = connect(set_output_queue(MoshiASR_init, TRUE), TRUE)
  /\ moshi_asr' = TRUE
  /\ UNCHANGED threadvars
  /\ ThreadsFrame

\* The websocket's thread calls on_message with a Ready, a Word or a Step
receive ==
  /\ rx.pc = "idle" /\ asr.connected
  /\ \/ rx' = Goto(rx, "203")
     \/ rx' = Goto(rx, "211")
     \/ /\ asr.packets_received < MaxRecv
        /\ \E prs \in {0, ScenarioProb} : rx' = [rx EXCEPT !.pc = "239", !.prs = prs]
  /\ UNCHANGED <<asr, moshi_asr, tx>>
  /\ ThreadsFrame

\* The websocket's thread executes its next statement
on_message_run ==
  /\ rx.pc # "idle"
  /\ asr' = on_message_at(asr, rx).a
  /\ rx' = on_message_at(asr, rx).t
  /\ UNCHANGED <<moshi_asr, tx>>
  /\ ThreadsFrame

\* The step's thread calls _process_audio_chunk with a buffer of k frames
call_process_audio_chunk ==
  /\ moshi_asr /\ tx.pc = "idle"
  /\ \E k \in 1..MaxFrames :
       /\ tx.offered + k <= MaxSent
       /\ tx' = [tx EXCEPT !.pc = "326", !.left = k, !.offered = @ + k]
  /\ UNCHANGED <<asr, moshi_asr, rx>>
  /\ ThreadsFrame

\* The step's thread calls reset (KyutaiASRStep.reset_transcription)
call_reset ==
  /\ moshi_asr /\ tx.pc = "idle"
  /\ asr.is_speaking \/ asr.flushing_mode
  /\ tx' = Goto(tx, "378")
  /\ UNCHANGED <<asr, moshi_asr, rx>>
  /\ ThreadsFrame

\* The step's thread calls disconnect (KyutaiASRStep.cleanup, which then
\* forgets the object)
call_disconnect ==
  /\ moshi_asr /\ tx.pc = "idle"
  /\ tx' = Goto(tx, "368")
  /\ moshi_asr' = FALSE
  /\ UNCHANGED <<asr, rx>>
  /\ ThreadsFrame

\* The step's thread executes its next statement
step_thread_run ==
  /\ tx.pc # "idle"
  /\ asr' = step_thread_at(asr, tx).a
  /\ tx' = step_thread_at(asr, tx).t
  /\ UNCHANGED <<moshi_asr, rx>>
  /\ ThreadsFrame

ThreadsNext ==
  \/ threads_init
  \/ receive
  \/ on_message_run
  \/ call_process_audio_chunk
  \/ call_reset
  \/ call_disconnect
  \/ step_thread_run

ThreadsSpec == Init /\ [][ThreadsNext]_vars

\* ------------------------------------------------------ two sessions at once

\* Each client is served by its own KyutaiASRStep, whose init() builds its own
\* MoshiASR; every field a callback writes is an attribute of that object.

\* The events delivered to the session of client c.
SessionOps(c) ==
  {Op("init"), Op("Ready"), Op("reset")}
    \cup {[op |-> "Word", text |-> "bonjour", start_time |-> 5, prs |-> NoPrs, nbytes |-> 0]}
    \cup {[op |-> "Step", text |-> "", start_time |-> 0, prs |-> p, nbytes |-> 0] :
            p \in {0, ScenarioProb}}
    \cup {[op |-> "audio", text |-> "", start_time |-> 0, prs |-> NoPrs,
            nbytes |-> 2 * SAMPLES_PER_FRAME]}

\* What the operation does to a MoshiASR object with the fields s.
Perform(s, op) ==
  CASE op.op = "init" ->
         Run(connect_session(set_output_queue(MoshiASR_init, TRUE), TRUE))
    [] op.op = "Ready" -> Run([s EXCEPT !.stream_active = TRUE])
    [] op.op = "Word" -> OnWord(Run(s), op.text, op.start_time)
    [] op.op = "Step" -> OnStep(Run(s), op.prs)
    [] op.op = "audio" -> _process_audio_chunk(Run(s), op.nbytes)
    [] op.op = "reset" -> Run(reset(s))

Session(r) == [live |-> TRUE, s |-> r.s, q |-> r.q, tx |-> r.tx]

\* Mutant: the fields are attributes of the class, shared by every object.
Assign_to_class(store, c, r) == [x \in DOMAIN store |-> Session(r)]

\* self.<field> = ...: the callback writes the fields of its own object
Assign(store, c, r) == [store EXCEPT ![c] = Session(r)]

RecvCap(c) == IF c = "A" THEN MaxRecv ELSE MaxRecvOther

\* The operation may be delivered to the session of client c.
Deliverable(c, op) ==
  CASE op.op = "init" -> ~sessions[c].live
    [] op.op \in {"Ready", "Word"} -> sessions[c].live /\ sessions[c].s.connected
    [] op.op = "Step" -> /\ sessions[c].live /\ sessions[c].s.connected
                         /\ sessions[c].s.packets_received < RecvCap(c)
    [] op.op = "audio" ->
         /\ sessions[c].live
         /\ sessions[c].s.packets_sent + FrameCount(op.nbytes) <= MaxSent
    [] op.op = "reset" -> sessions[c].live /\ sessions[c].s.is_speaking

\* One event of kind k reaches the session of one client.
Deliver(k) ==
  \E c \in ClientIds : \E op \in SessionOps(c) :
    /\ op.op = k
    /\ Deliverable(c, op)
    /\ sessions' = Assign(sessions, c, Perform(sessions[c].s, op))
    /\ solo' = IF c = "A" THEN Session(Perform(solo.s, op)) ELSE solo
    /\ actor' = c
    /\ UNCHANGED <<moshi_asr, asr, text_buffer, last, pre, emitted, frames, entry, scen>>
    /\ UNCHANGED stepvars
    /\ UNCHANGED pipevars
    /\ UNCHANGED transvars
    /\ UNCHANGED threadvars
    /\ UNCHANGED emavars

session_init == Deliver("init")
session_Ready == Deliver("Ready")
session_Word == Deliver("Word")
session_Step == Deliver("Step")
session_audio == Deliver("audio")
session_reset == Deliver("reset")

SessionsNext ==
  \/ session_init
  \/ session_Ready
  \/ session_Word
  \/ session_Step
  \/ session_audio
  \/ session_reset

SessionsSpec == Init /\ [][SessionsNext]_vars

\* ------------------------------------------------------ the pipeline runtime

\* Everything but the pipeline runtime.
asrvars == <<moshi_asr, asr, text_buffer, last, pre, emitted, frames, entry, scen,
             message, current_client_id, sessions, solo, actor,
             errored, abandoned, dropped, rx, tx, ema, timed_out>>

\* asyncio.Queue(): no maxsize argument, so maxsize is 0, "no limit"
maxsize == 0

\* asyncio.Queue.full
full(q) == maxsize > 0 /\ Len(q) >= maxsize

\* OutputMessage(data, metadata): a Message of type MessageType.DATA
OutputMessage(data, metadata) == Message("DATA", data, metadata)

\* ErrorMessage(error, step_name)
ErrorMessage(error, step_name) ==
  Message("ERROR", [error |-> error, step_name |-> step_name], NoMetadata)

\* The steps under test implement process_message by what the payload asks
\* for: "ok" returns an OutputMessage with the same payload, "none" returns
\* None, "raise" raises an exception whose text names the message.
Acts == {"ok", "none", "raise"}
Outcome(m) == IF m.type = "DATA" THEN m.data.act ELSE "ok"
Cause(m) == <<"failed on", m.data.id>>
process_message(s, m) == OutputMessage(m.data, m.metadata)

\* Mutant: the exception escapes the loop and nothing is forwarded.
Iteration_unhandled(s, m) ==
  IF Outcome(m) = "ok" THEN <<process_message(s, m)>> ELSE <<>>

\* One pass of the body of _message_loop on message m: what it puts on
\* output_queue (an asyncio.Queue object is truthy).
Iteration(s, m) ==
  IF Outcome(m) = "raise" THEN <<ErrorMessage(Cause(m), s)>>
  ELSE IF Outcome(m) = "none" THEN <<>>
  ELSE <<process_message(s, m)>>

\* Mutant: the newest message is taken first.
Dequeue_newest(q) == [message |-> q[Len(q)], rest |-> SubSeq(q, 1, Len(q) - 1)]

\* await self.input_queue.get()
Dequeue(q) == [message |-> Head(q), rest |-> Tail(q)]

\* The input queues after step s consumed its queue down to rest and msgs
\* were put on the queue ref.
InputsAfter(s, rest, ref, msgs) ==
  [t \in Steps |->
     (IF t = s THEN rest ELSE input_queue[t])
       \o (IF ref = InputOf(t) THEN msgs ELSE <<>>)]

\* PipelineStep.set_output_queue
PipelineStep_set_output_queue(queues, s, queue_instance) ==
  [queues EXCEPT ![s] = queue_instance]

\* Mutant: the upstream step is handed the downstream step's output queue.
output_queue_of(to_step) == OutputOf(to_step)

\* to_step.input_queue
input_queue_of(to_step) == InputOf(to_step)

\* Pipeline.connect_steps
connect_steps ==
  \E from_step_name \in {"A"}, to_step_name \in StepNames \ {"A"} :
    /\ Len(connections) = 0
    /\ IF from_step_name \notin Steps \/ to_step_name \notin Steps
       THEN UNCHANGED <<output_queue, connections>>
       ELSE /\ output_queue' = PipelineStep_set_output_queue(
                                  output_queue, from_step_name,
                                  input_queue_of(to_step_name))
            /\ connections' = Append(connections, <<from_step_name, to_step_name>>)
    /\ UNCHANGED <<input_queue, own_output, is_running, _task, orphans, cleanups,
                   init_ok, nsent, enq, handled, forwarded, late, stopping,
                   Pipeline_is_running>>
    /\ UNCHANGED asrvars

\* The asyncio.Queue objects of the steps.
Queues == {InputOf(s) : s \in Steps} \cup {OutputOf(s) : s \in Steps}

\* PipelineStep.set_output_queue called on the step itself, as
\* PipelineLoader._setup_bidirectional_connections does once the connections
\* of the definition are made
step_set_output_queue ==
  \E s \in {"A"}, queue_instance \in Queues \ {InputOf("A")} :
    /\ output_queue' = PipelineStep_set_output_queue(output_queue, s, queue_instance)
    /\ UNCHANGED <<input_queue, own_output, is_running, _task, orphans, connections,
                   cleanups, init_ok, nsent, enq, handled, forwarded, late, stopping,
                   Pipeline_is_running>>
    /\ UNCHANGED asrvars

\* What init() returns: KyutaiASRStep.init returns False when connect()
\* raised because the websocket did not open within the timeout.
init_returns(opened) == opened

\* Mutant: the step is marked running before init() is consulted.
start_running_early(was_running, ok) == TRUE

\* is_running after start() whose init() returned ok
start_running(was_running, ok) == IF ok THEN TRUE ELSE was_running

\* if not self.init(): return False ... return True
start_returns(ok) == ok

\* PipelineStep.start on every step of S, the init() of step s returning
\* ok[s], with at most limit replaced tasks of a step left alive
StartSteps(S, ok, limit) ==
  /\ \A s \in S : (ok[s] /\ _task[s] = "pending") => orphans[s] < limit
  /\ init_ok' = [s \in Steps |->
                   IF ~(s \in S) THEN init_ok[s]
                   ELSE IF start_returns(ok[s]) \/ init_ok[s] = "True" THEN "True"
                   ELSE "False"]
  /\ is_running' = [s \in Steps |->
                      IF s \in S THEN start_running(is_running[s], ok[s])
                      ELSE is_running[s]]
  /\ _task' = [s \in Steps |-> IF s \in S /\ ok[s] THEN "pending" ELSE _task[s]]
  /\ orphans' = [s \in Steps |->
                   IF s \in S /\ ok[s] /\ _task[s] = "pending" THEN orphans[s] + 1
                   ELSE orphans[s]]
  /\ UNCHANGED <<input_queue, own_output, output_queue, connections, cleanups,
                 nsent, enq, handled, forwarded, late, stopping>>
  /\ UNCHANGED asrvars

\* The step whose own start() and stop() are called.
UnderTest == "A"

\* PipelineStep.start
start ==
  \E opened \in BOOLEAN :
    /\ StartSteps({UnderTest}, [s \in Steps |-> init_returns(opened)], MaxOrphans)
    /\ UNCHANGED Pipeline_is_running

\* PipelineStep.start, called on a running step as well
start_again ==
  \E opened \in BOOLEAN :
    /\ StartSteps({UnderTest}, [s \in Steps |-> init_returns(opened)], MaxRestarts)
    /\ UNCHANGED Pipeline_is_running

\* Pipeline.start, "for step in self.steps.values()": the steps whose start()
\* is called, in the order they were added, up to and including the first
\* whose start() returns False
Started(ok) ==
  IF start_returns(ok[StepOrder[1]]) THEN {StepOrder[1], StepOrder[2]}
  ELSE {StepOrder[1]}

\* What Pipeline.start returns: False at the first start() that returned
\* False, True after the loop.
Pipeline_start_returns(ok) == \A s \in Steps : start_returns(ok[s])

\* Pipeline.start, the init() of step s returning init_returns(opened[s])
Pipeline_start_with(opened, limit) ==
  LET ok == [s \in Steps |-> init_returns(opened[s])] IN
  /\ StartSteps(Started(ok), ok, limit)
  /\ Pipeline_is_running' = (IF Pipeline_start_returns(ok) THEN TRUE
                             ELSE Pipeline_is_running)

\* Pipeline.start
Pipeline_start ==
  \E opened \in [Steps -> BOOLEAN] : Pipeline_start_with(opened, MaxOrphans)

\* Pipeline.start, called on a running pipeline as well
Pipeline_start_again ==
  \E opened \in [Steps -> BOOLEAN] : Pipeline_start_with(opened, MaxRestarts)

\* stop() ends with self.cleanup()
cleanups_after_stop(n) == n + 1

\* self._task.cancel(); await self._task
task_after_stop(task) == IF task = "pending" THEN "done" ELSE task

\* PipelineStep.stop on every step of S, each step stopped at most limit
\* times in all
StopSteps(S, limit) ==
  /\ \A s \in S : cleanups[s] < limit
  /\ is_running' = [s \in Steps |-> IF s \in S THEN FALSE ELSE is_running[s]]
  /\ _task' = [s \in Steps |-> IF s \in S THEN task_after_stop(_task[s]) ELSE _task[s]]
  /\ cleanups' = [s \in Steps |->
                    IF s \in S THEN cleanups_after_stop(cleanups[s]) ELSE cleanups[s]]
  /\ UNCHANGED <<input_queue, own_output, output_queue, orphans, connections,
                 init_ok, nsent, enq, handled, forwarded, late>>
  /\ UNCHANGED asrvars

\* PipelineStep.stop
stop == StopSteps({UnderTest}, MaxStops) /\ UNCHANGED <<stopping, Pipeline_is_running>>

\* Pipeline.stop: stop() of the first step; while Pipeline.stop awaits it
\* and goes on to the next step, the other tasks run
Pipeline_stop ==
  /\ stopping = <<>>
  /\ Pipeline_is_running' = FALSE
  /\ StopSteps({Head(StepOrder)}, MaxPipelineStops)
  /\ stopping' = Tail(StepOrder)

\* Pipeline.stop, a later pass of "for step in self.steps.values()"
Pipeline_stop_next ==
  /\ stopping # <<>>
  /\ StopSteps({Head(stopping)}, MaxPipelineStops)
  /\ stopping' = Tail(stopping)
  /\ UNCHANGED Pipeline_is_running

\* Pipeline.send_message
send_message ==
  \E step_name \in {UnderTest, "X"}, act \in Acts :
    LET m == InputMessage([id |-> nsent + 1, act |-> act], NoMetadata) IN
    /\ nsent < MaxSend
    /\ IF step_name \in Steps
       THEN /\ ~full(input_queue[step_name])
            /\ input_queue' = [input_queue EXCEPT ![step_name] = Append(@, m)]
            /\ enq' = [enq EXCEPT ![step_name] = Append(@, m)]
            /\ nsent' = nsent + 1
       ELSE UNCHANGED <<input_queue, enq, nsent>>
    /\ UNCHANGED <<own_output, output_queue, is_running, _task, orphans, connections,
                   cleanups, init_ok, handled, forwarded, late, stopping,
                   Pipeline_is_running>>
    /\ UNCHANGED asrvars

\* A _message_loop task of step s is alive: the one _task refers to, or one
\* that a later start() replaced.
Working(s) == _task[s] = "pending" \/ orphans[s] > 0

\* Mutant: the results go to the step the first connection was made to.
Destination_connected(s) ==
  IF connections # <<>> /\ connections[1][1] = s
  THEN InputOf(connections[1][2]) ELSE output_queue[s]

\* await self.output_queue.put(result): the queue the attribute names when
\* the result is put
Destination(s) == output_queue[s]

\* PipelineStep._message_loop: a live task of step s gets a message, calls
\* process_message, puts the result or the ErrorMessage on output_queue, and
\* tests is_running again
_message_loop ==
  \E s \in Steps :
    LET got == Dequeue(input_queue[s])
        msgs == Iteration(s, got.message)
        ref == Destination(s)
    IN
    /\ Working(s)
    /\ Len(input_queue[s]) > 0
    /\ input_queue' = InputsAfter(s, got.rest, ref, msgs)
    /\ enq' = [t \in Steps |-> enq[t] \o (IF ref = InputOf(t) THEN msgs ELSE <<>>)]
    /\ own_output' = [t \in Steps |->
                        own_output[t] \o (IF ref = OutputOf(t) THEN msgs ELSE <<>>)]
    /\ handled' = [handled EXCEPT ![s] = Append(@, got.message)]
    /\ late' = [late EXCEPT ![s] = @ \/ cleanups[s] > 0]
    /\ forwarded' = [forwarded EXCEPT ![s] = @ \o msgs]
    /\ orphans' = [orphans EXCEPT ![s] = IF is_running[s] THEN @ ELSE @ - 1]
    /\ UNCHANGED <<output_queue, is_running, _task, connections, cleanups,
                   init_ok, nsent, stopping, Pipeline_is_running>>
    /\ UNCHANGED asrvars

\* PipelineStep._message_loop: the wait for a message times out; the task
\* tests is_running again, and one that stop() did not cancel may find it False
_message_loop_timeout ==
  \E s \in Steps :
    /\ Working(s)
    /\ orphans' = [orphans EXCEPT ![s] = IF is_running[s] THEN @ ELSE @ - 1]
    /\ UNCHANGED <<input_queue, own_output, output_queue, is_running, _task, connections,
                   cleanups, init_ok, nsent, enq, handled, forwarded,
                   late, stopping, Pipeline_is_running>>
    /\ UNCHANGED asrvars

\* One step, driven through its own start() and stop().
LifecycleNext ==
  \/ start
  \/ stop
  \/ send_message
  \/ _message_loop
  \/ _message_loop_timeout

LifecycleSpec == Init /\ [][LifecycleNext]_vars

\* Two connected steps, driven through the Pipeline.
PipelineNext ==
  \/ connect_steps
  \/ Pipeline_start
  \/ Pipeline_stop
  \/ Pipeline_stop_next
  \/ send_message
  \/ _message_loop
  \/ _message_loop_timeout

PipelineSpec == Init /\ [][PipelineNext]_vars

\* Steps and a pipeline that are started again while they run.
RestartNext ==
  \/ start_again
  \/ stop
  \/ Pipeline_start_again
  \/ Pipeline_stop
  \/ Pipeline_stop_next
  \/ send_message
  \/ _message_loop
  \/ _message_loop_timeout

RestartSpec == Init /\ [][RestartNext]_vars

\* One running step whose output is connected and then assigned again.
WiringNext ==
  \/ connect_steps
  \/ step_set_output_queue
  \/ start
  \/ stop
  \/ send_message
  \/ _message_loop
  \/ _message_loop_timeout

WiringSpec == Init /\ [][WiringNext]_vars

\* ------------------------------------------------------------ the claims

\* Number of events of one type among those a handler emitted.
Count(q, ty) == Cardinality({i \in 1..Len(q) : q[i].type = ty})

\* The last operation was a Step whose pause component was fed to the EMA,
\* and the smoothed value left by it.
StepIntegrated == last.op = "Step" /\ last.prs # NoPrs /\ pre.steps_to_wait = 0

\* The smoothed probability exceeded pause_threshold while speaking.
PauseWhileSpeaking ==
  StepIntegrated /\ pre.is_speaking /\ asr.pause_value > PAUSE_THRESHOLD

\* ... and the session was not yet flushing: a flush entry.
FlushEntry == PauseWhileSpeaking /\ ~pre.flushing_mode

\* C1: the number of START messages a handler emits equals the number of
\* transitions of speaking from false to true it makes (one START per
\* transition into active speech, none without one).
C1_StartPerTransition ==
  asr.output_queue =>
    Count(emitted, "start") = IF ~pre.is_speaking /\ asr.is_speaking THEN 1 ELSE 0

\* C2: a Word received while Idle emits START, then the TEXT of the word,
\* and leaves the session Speaking.
C2_IdleWordEmitsStart ==
  (last.op = "Word" /\ ~pre.is_speaking /\ ~pre.flushing_mode /\ asr.output_queue)
    => /\ emitted = <<StartEvent, TextEvent(last.text)>>
       /\ asr.is_speaking /\ ~asr.flushing_mode

NotCancelling == last.op = "Step" /\ (last.prs = NoPrs \/ asr.pause_value >= VAD_THRESHOLD)

C5_WordCancelsFlush ==
  /\ (last.op = "Word" /\ pre.flushing_mode) =>
       /\ ~asr.flushing_mode
       /\ asr.is_speaking
       /\ Count(emitted, "end") = 0
  /\ Count(emitted, "end") > 0 => (pre.flushing_mode \/ FlushEntry)

C5_Witness ==
  /\ last.op = "Word" /\ pre.flushing_mode
  /\ pre.packets_received < pre.flushing_limit
  /\ asr.output_queue
  /\ emitted = <<TextEvent(last.text)>>

\* C6: the end-to-end scenario on a fresh, connected engine with an output:
\* ten warm-up Steps at 0.95 are ignored; the Word "bonjour" gives START then
\* TEXT("bonjour"); twelve Steps at 0.95 send exactly twelve silence frames
\* and give one END, carrying transcript "bonjour" and word count 1, once
\* the twelve Steps have been received.
C6_EndToEndScenario ==
  /\ (scen >= 1 /\ scen <= WARMUP_STEPS) => (emitted = <<>> /\ frames = <<>>)
  /\ scen = WARMUP_STEPS + 1 => emitted = <<StartEvent, TextEvent("bonjour")>>
  /\ (scen > WARMUP_STEPS + 1 /\ scen < ScenarioLen) => Count(emitted, "end") = 0
  /\ scen > WARMUP_STEPS + 1 => asr.packets_sent = FLUSH_LENGTH
  /\ scen = ScenarioLen =>
       /\ Len(emitted) = 1
       /\ emitted[1].type = "end"
       /\ emitted[1].data = [transcript |-> <<"bonjour">>, word_count |-> 1]

\* C7: every END carries the tokens of the Words received since the previous
\* END, in order, and their count; the transcript buffer grows by one token
\* per Word.
C7_EndCarriesTranscript ==
  /\ last.op = "Word" =>
       (text_buffer # <<>> /\ text_buffer[Len(text_buffer)] = last.text)
  /\ \A i \in 1..Len(emitted) :
       emitted[i].type = "end" =>
         emitted[i].data = [transcript |-> text_buffer, word_count |-> Len(text_buffer)]

\* C8: with an output attached, each Word emits exactly one TEXT, carrying
\* the word's token and its start offset (so that TEXT messages can be
\* ordered by start_time).
C8_TextPerWord ==
  (last.op = "Word" /\ asr.output_queue) =>
    /\ Count(emitted, "text") = 1
    /\ \A i \in 1..Len(emitted) :
         emitted[i].type = "text" =>
           /\ emitted[i].text = last.text
           /\ "start_time" \in DOMAIN emitted[i]
           /\ emitted[i].start_time = last.start_time

\* The last operation processed a PCM buffer on a connected, stream-active
\* session.
AudioProcessed == last.op = "audio" /\ pre.connected /\ pre.stream_active

C10_NoSampleDropped ==
  AudioProcessed =>
    LET num_samples == last.nbytes \div 2
    IN  /\ Len(frames) = FrameCount(last.nbytes)
        /\ \A i \in 1..Len(frames) :
             /\ frames[i].kind = "pcm"
             /\ frames[i].first = (i - 1) * SAMPLES_PER_FRAME
             /\ frames[i].n = Min(SAMPLES_PER_FRAME, num_samples - frames[i].first)

\* The handler was given a Data message carrying whole 16-bit samples while
\* the session existed, was connected and its stream was active.
HandledAudio ==
  /\ last.op = "handle"
  /\ message.type = "DATA"
  /\ message.data.py = "bytes"
  /\ message.data.len > 0
  /\ UnpackOk(message.data.len)
  /\ moshi_asr /\ pre.connected /\ pre.stream_active

\* C11: a Data message whose payload is a PCM buffer of n samples, handled
\* while the session is connected and stream-active, is not rejected by the
\* kind check: ceil(n / SAMPLES_PER_FRAME) frames are handed to the websocket
\* and packets_sent grows by as many.
C11_DataMessageFramed ==
  HandledAudio =>
    /\ Len(frames) = FrameCount(message.data.len)
    /\ asr.packets_sent = pre.packets_sent + FrameCount(message.data.len)

\* The client an event on the output queue is routed to: the client_id of its
\* metadata, when the event has metadata at all.
ClientIdOf(event) ==
  IF "metadata" \in DOMAIN event THEN Get(event.metadata, "client_id") ELSE None

\* C13: every START, TEXT and END event put on the output queue carries in
\* its metadata the client_id of the audio that fed the session.
C13_EventsCarryClientId ==
  \A i \in 1..Len(emitted) : ClientIdOf(emitted[i]) \in ClientIds

Capacity == MaxSend - 1

\* C14: a mailbox has a bounded capacity: it never holds more than Capacity
\* messages, an enqueue beyond it being dropped.
C14_MailboxBounded == \A s \in Steps : Len(input_queue[s]) <= Capacity

\* What _message_loop forwards for the messages msgs, handled in this order.
RECURSIVE Results(_, _)
Results(s, msgs) ==
  IF msgs = <<>> THEN <<>>
  ELSE Iteration(s, Head(msgs)) \o Results(s, Tail(msgs))

\* The messages handled so far are the first ones enqueued, in that order.
InOrder(s) == enq[s] = handled[s] \o input_queue[s]

\* C15: each step handles its messages in the order they were enqueued, and
\* its output receives the results in the order of their inputs, one handled
\* and forwarded before the next is taken.
C15_SerialFifo ==
  \A s \in Steps :
    /\ InOrder(s)
    /\ forwarded[s] = Results(s, handled[s])
    /\ output_queue[s] = OutputOf(s) => own_output[s] = forwarded[s]

\* Both steps at work: "A" has forwarded two results with a message still
\* waiting, and "B" has handled one of them.
C15_Witness ==
  /\ Len(forwarded["A"]) >= 2
  /\ Len(input_queue["A"]) >= 1
  /\ Len(handled["B"]) >= 1
  /\ Len(input_queue["B"]) >= 1

Raised(m) == Outcome(m) = "raise"
IsError(m) == m.type = "ERROR"

\* The ErrorMessage for each of the messages msgs.
ErrorsFor(s, msgs) == [i \in 1..Len(msgs) |-> ErrorMessage(Cause(msgs[i]), s)]

C17_RunningOnlyAfterInit ==
  \A s \in Steps :
    init_ok[s] # "True" =>
      /\ ~is_running[s]
      /\ _task[s] = None
      /\ orphans[s] = 0
      /\ handled[s] = <<>>
      /\ forwarded[s] = <<>>

\* start() has returned False and messages wait in the mailbox, unhandled.
C17_Witness ==
  /\ init_ok["A"] = "False"
  /\ Len(input_queue["A"]) >= 2
  /\ handled["A"] = <<>>

\* C18: however often stop() is called, cleanup() is invoked once in all.
C18_CleanupOnce == \A s \in Steps : cleanups[s] <= 1

\* C19: after stop() has returned, process_message of the step is not
\* called again: the messages in its mailbox then, and later ones, are
\* never handled.
C19_NothingAfterStop == \A s \in Steps : ~late[s]

\* C20: after connect_steps("A", "B"), the output queue of "A" is the input
\* queue of "B": what "A" forwards from then on is what "B" receives, in
\* that order, and "B" handles it in that order.
C20_ConnectedDelivery ==
  connections # <<>> =>
    /\ connections = <<<<"A", "B">>>>
    /\ output_queue["A"] = InputOf("B")
    /\ forwarded["A"] = own_output["A"] \o enq["B"]
    /\ InOrder("B")

\* "A" produced a result before the connection and, after it, two results
\* around a message it returned None for; "B" has handled both.
C20_Witness ==
  /\ connections # <<>>
  /\ Len(handled["A"]) > Len(forwarded["A"])
  /\ Len(enq["B"]) >= 2
  /\ Len(handled["B"]) >= 2

\* --------------------------------------- claims on the session's protocol

\* C21: when connect() has returned without error, and so when the step's
\* init() has succeeded, a Ready event has been seen: stream_active is set.
C21_ConnectAfterReady == (last.op = "init" /\ asr.connected) => asr.stream_active

\* The handler was given a Data message whose payload is there but is not a
\* bytes buffer, the MoshiASR object being there.
HandledNonPcm ==
  /\ last.op = "handle"
  /\ moshi_asr
  /\ message.type = "DATA"
  /\ Truthy(message.data)
  /\ message.data.py # "bytes"

\* C25: an input message whose payload is not a PCM bytes buffer makes the
\* step put one Error message on its output and leaves the session's flags,
\* counters and flush target as they were.
C25_NonPcmPayloadError ==
  HandledNonPcm =>
    /\ Len(emitted) = 1
    /\ emitted[1].type = "ERROR"
    /\ frames = <<>>
    /\ Snapshot = pre

\* C22: after a transport error (on_error called, or a send that raised) and
\* until connect() is called again, the session is marked disconnected and
\* no frame is handed to the websocket or counted in packets_sent.
C22_ErrorDisconnects ==
  errored =>
    /\ ~asr.connected
    /\ frames = <<>>
    /\ asr.packets_sent = pre.packets_sent

\* The frames a buffer of nbytes bytes is sliced into.
Tiling(nbytes) ==
  [i \in 1..FrameCount(nbytes) |->
     AudioFrame((i - 1) * SAMPLES_PER_FRAME,
                Min(SAMPLES_PER_FRAME, nbytes \div 2 - (i - 1) * SAMPLES_PER_FRAME),
                i - 1)]

\* C23: while the session is disconnected every frame offered, speech or
\* silence, is dropped: nothing is handed to the websocket or kept, and
\* packets_sent stays; what an operation transmits is made of its own input
\* only, so that no frame dropped earlier is transmitted after a reconnect.
C23_DisconnectedFramesDropped ==
  /\ ~pre.connected => (frames = <<>> /\ asr.packets_sent = pre.packets_sent)
  /\ ~asr.connected =>
       /\ \A f \in {SilenceFrame, AudioFrame(0, SAMPLES_PER_FRAME, 0)} :
            _send_audio(Run(asr), f) = Run(asr)
       /\ _enter_flushing_mode(Run(asr)).tx = <<>>
       /\ _enter_flushing_mode(Run(asr)).s.packets_sent = asr.packets_sent
  /\ last.op = "audio" =>
       frames = IF pre.connected /\ pre.stream_active THEN Tiling(last.nbytes) ELSE <<>>
  /\ last.op = "Step" =>
       (frames = <<>> \/ frames = [i \in 1..FLUSH_LENGTH |-> SilenceFrame])
  /\ last.op \notin {"audio", "Step"} => frames = <<>>
  /\ asr.packets_sent = pre.packets_sent + Len(frames)

\* After a buffer was dropped while the session was disconnected, and a
\* reconnect, a buffer of two frames has just been sent: those two frames
\* and no other.
C23_Witness ==
  /\ dropped > 0
  /\ last.op = "audio"
  /\ pre.connected /\ pre.stream_active
  /\ pre.packets_received > 0
  /\ Len(frames) = FrameCount(last.nbytes)
  /\ asr.packets_sent = Len(frames)

\* C24: a flush during which the connection closed is abandoned: no END is
\* emitted for it, neither at the close nor after a reconnect, when further
\* Steps bring packets_received to the old flushing_limit.
C24_AbandonedFlushNoEnd == abandoned => Count(emitted, "end") = 0

\* No thread is inside a method of the object.
Quiescent == rx.pc = "idle" /\ tx.pc = "idle"

\* C27: with the events of the websocket's thread interleaved with reset,
\* disconnect and the sending of audio on the step's thread, the session is
\* Idle, Speaking or Flushing whenever no call is in progress: flushing_mode
\* implies is_speaking.
C27_ThreeStates == Quiescent => (asr.flushing_mode => asr.is_speaking)

\* C28: with the two threads interleaved, the flushing_limit recorded at a
\* flush entry is the value packets_sent has when the last of the
\* FLUSH_LENGTH silence frames has been sent: no speech frame is sent and
\* counted in between.  Stated for a session that the step has not
\* disconnected.
C28_FlushEntryAtomic ==
  (moshi_asr /\ rx.pc = "315" /\ rx.i = FLUSH_LENGTH) => asr.packets_sent = rx.target

\* The last operation was an event received from the websocket.
InboundEvent == last.op \in {"Word", "Step"} \cup OtherTypes

\* The handler found the session flushing, or entered a flush itself.
FlushWasOn == pre.flushing_mode \/ FlushEntry

C29_WordEffect ==
  last.op = "Word" =>
    /\ asr.pause_value = 0
    /\ asr.is_speaking /\ ~asr.flushing_mode
    /\ asr.packets_sent = pre.packets_sent
    /\ asr.packets_received = pre.packets_received
    /\ asr.steps_to_wait = pre.steps_to_wait

\* A Word received in each kind of state: here while Flushing after real
\* audio, the warm-up over.
C29_Witness ==
  /\ last.op = "Word"
  /\ pre.flushing_mode /\ pre.is_speaking
  /\ pre.steps_to_wait = 0
  /\ pre.packets_sent > FLUSH_LENGTH
  /\ asr.pause_value = 0

\* C30 as stated: each of the first WARMUP_STEPS Step events since the
\* MoshiASR object was created emits nothing, leaves speaking and flushing
\* alone and takes one off the warm-up counter; the Steps after them are
\* integrated.
C30_FirstStepsIgnored ==
  /\ (last.op = "Step" /\ pre.packets_received < WARMUP_STEPS) =>
       /\ asr.steps_to_wait = pre.steps_to_wait - 1
       /\ emitted = <<>> /\ frames = <<>>
       /\ asr.is_speaking = pre.is_speaking
       /\ asr.flushing_mode = pre.flushing_mode
  /\ (last.op = "Step" /\ last.prs # NoPrs /\ pre.packets_received >= WARMUP_STEPS) =>
       pre.steps_to_wait = 0

\* What a Step with pause component p leaves as the smoothed probability
\* when it is integrated.
Integrated(value, p) ==
  LET v == EMA_update(value, FRAME_TIME_MS, p)
  IN  IF v < VAD_THRESHOLD THEN 0 ELSE v

\* C30 as amended: the warm-up counts the Step events that carry a pause
\* component (three prs or more).  Each of the first WARMUP_STEPS of them
\* leaves the smoothed probability, speaking and flushing unchanged, emits
\* and sends nothing, and takes exactly one off the warm-up counter; every
\* later one is fed to the EMA.  A Step without the component only counts
\* as received.
C30_WarmupStepsIgnored ==
  [][ /\ (last'.op = "Step" /\ last'.prs # NoPrs /\ asr.steps_to_wait > 0) =>
           /\ asr' = [asr EXCEPT !.packets_received = @ + 1, !.steps_to_wait = @ - 1]
           /\ emitted' = <<>> /\ frames' = <<>>
      /\ (last'.op = "Step" /\ last'.prs # NoPrs /\ asr.steps_to_wait = 0) =>
           /\ asr'.pause_value = Integrated(asr.pause_value, last'.prs)
           /\ asr'.steps_to_wait = 0
      /\ (last'.op = "Step" /\ last'.prs = NoPrs /\ ~asr.flushing_mode) =>
           /\ asr' = [asr EXCEPT !.packets_received = @ + 1]
           /\ emitted' = <<>> /\ frames' = <<>>
    ]_vars

\* The last Step of the warm-up, received after a Word and after a Step
\* without pause component: ten Steps before it, yet the counter was at 1.
C30_Witness ==
  /\ last.op = "Step" /\ last.prs # NoPrs
  /\ pre.steps_to_wait = 1 /\ asr.steps_to_wait = 0
  /\ pre.packets_received = WARMUP_STEPS
  /\ asr.is_speaking
  /\ asr.pause_value = 0
  /\ emitted = <<>>

\* ------------------------------------------- claims on the segmentation, II

\* The smoothed probability that a Step with pause component p gives.
Smoothed(value, p) == EMA_update(value, FRAME_TIME_MS, p)

\* C31: Speaking and not Flushing, the warm-up over: a Step whose smoothed
\* probability is below vad_threshold sets the probability to 0, leaves
\* speaking set and flushing clear, emits nothing and sends nothing.
C31_SpeakingStaysSpeaking ==
  [][ (/\ last'.op = "Step" /\ last'.prs # NoPrs
       /\ asr.steps_to_wait = 0
       /\ asr.is_speaking /\ ~asr.flushing_mode
       /\ Smoothed(asr.pause_value, last'.prs) < VAD_THRESHOLD) =>
        /\ asr' = [asr EXCEPT !.packets_received = @ + 1, !.pause_value = 0]
        /\ emitted' = <<>> /\ frames' = <<>>
    ]_vars

\* Such a Step, received after the warm-up by a session that is Speaking.
C31_Witness ==
  /\ last.op = "Step" /\ last.prs # NoPrs
  /\ pre.steps_to_wait = 0
  /\ pre.is_speaking /\ ~pre.flushing_mode
  /\ asr.pause_value = 0
  /\ asr.is_speaking /\ ~asr.flushing_mode
  /\ emitted = <<>> /\ frames = <<>>

\* C32: updates repeated toward a constant target: from a value above the
\* target the sequence never rises and never falls below the target; from a
\* value below it the sequence never falls and never rises above the target.
C32_EmaMonotone ==
  /\ (ema.n > 0 /\ ema.first > ema.new_value) =>
       (ema.value <= ema.prev /\ ema.value >= ema.new_value)
  /\ (ema.n > 0 /\ ema.first < ema.new_value) =>
       (ema.value >= ema.prev /\ ema.value <= ema.new_value)

\* C33: after the step's cleanup the session is closed and its engine state
\* is reset: not connected, not stream-active, not flushing, not speaking,
\* and the smoothed probability back at 1.0.
C33_StopResetsEngine ==
  last.op = "cleanup" =>
    /\ ~asr.connected /\ ~asr.stream_active
    /\ ~asr.flushing_mode
    /\ ~asr.is_speaking
    /\ asr.pause_value = Scale

\* C34: while Flushing, the warm-up over, a Step whose smoothed probability
\* is below vad_threshold cancels the flush: flushing is cleared, speaking
\* stays set, the probability is set to 0, and no END is emitted, not even
\* when packets_received reaches flushing_limit with that Step.
C34_LowStepCancelsFlush ==
  [][ (/\ last'.op = "Step" /\ last'.prs # NoPrs
       /\ asr.steps_to_wait = 0
       /\ asr.flushing_mode
       /\ Smoothed(asr.pause_value, last'.prs) < VAD_THRESHOLD) =>
        /\ asr' = [asr EXCEPT !.packets_received = @ + 1, !.pause_value = 0,
                              !.flushing_mode = FALSE]
        /\ asr'.is_speaking
        /\ emitted' = <<>> /\ frames' = <<>>
    ]_vars

\* Such a Step, the one that brings packets_received to flushing_limit.
C34_Witness ==
  /\ last.op = "Step" /\ last.prs # NoPrs
  /\ pre.steps_to_wait = 0
  /\ pre.flushing_mode /\ ~asr.flushing_mode
  /\ asr.packets_received = asr.flushing_limit
  /\ asr.is_speaking
  /\ asr.pause_value = 0
  /\ emitted = <<>>

\* C35: an END is emitted only by a handler that leaves Flushing, and it
\* leaves the session Idle; it is never emitted by the handler of a Word, and
\* only a Word takes a session from not speaking to speaking.  Hence a Word
\* is received between any two ENDs of a session, and Step, EndWord, Marker
\* and Ready events alone give no END once the session is Idle.
C35_EndNeedsWord ==
  /\ Count(emitted, "end") > 0 =>
       /\ pre.flushing_mode \/ FlushEntry
       /\ pre.is_speaking
       /\ ~asr.flushing_mode /\ ~asr.is_speaking
       /\ last.op # "Word"
       /\ Count(emitted, "end") = 1
  /\ (asr.is_speaking /\ ~pre.is_speaking) => last.op = "Word"
  /\ (~pre.is_speaking /\ last.op \in {"Step", "Ready"} \cup OtherTypes) =>
       (Count(emitted, "end") = 0 /\ ~asr.is_speaking /\ ~asr.flushing_mode)

\* An END, emitted by a Step that found the session Flushing.
C35_Witness ==
  /\ Count(emitted, "end") = 1
  /\ last.op = "Step"
  /\ pre.flushing_mode /\ pre.is_speaking
  /\ ~asr.is_speaking /\ ~asr.flushing_mode

\* C36: with the connection up, one Step received per frame sent, and no
\* Word and no Step below vad_threshold once a flush is on: a session that is
\* Flushing has packets_received below flushing_limit, and it eventually
\* emits END and is Idle.
C36_FlushEnds ==
  /\ [](asr.flushing_mode => asr.packets_received < asr.flushing_limit)
  /\ asr.flushing_mode ~>
       (Count(emitted, "end") = 1 /\ ~asr.is_speaking /\ ~asr.flushing_mode)

\* The END of a flush entered with Steps still due: the last of the Steps
\* that answer the silence frames ends it.
C36_Witness ==
  /\ Count(emitted, "end") = 1
  /\ ~asr.is_speaking /\ ~asr.flushing_mode
  /\ asr.packets_received = asr.flushing_limit
  /\ asr.packets_received = asr.packets_sent
  /\ entry.received < entry.sent

\* C37: when connect() timed out inside init(), so that init() returned
\* False, the session it made emits no START, TEXT or END afterwards, even
\* when its websocket opens after the timeout and events arrive.
C37_TimedOutSessionSilent == timed_out => emitted = <<>>

\* ------------------------------------------- claims on the pipeline, II

\* The place, in the order of addition, of the first step whose init() fails.
FailsAt(opened) ==
  CHOOSE k \in 1..Len(StepOrder) :
    /\ ~init_returns(opened[StepOrder[k]])
    /\ \A j \in 1..(k - 1) : init_returns(opened[StepOrder[j]])

\* The steps added before, and after, the one at place k.
Before(k) == {StepOrder[j] : j \in 1..(k - 1)}
After(k) == {StepOrder[j] : j \in (k + 1)..Len(StepOrder)}

\* Pipeline.start returns False: the init() of some step failed.
Pipeline_start_fails(opened) ==
  /\ Pipeline_start_with(opened, MaxRestarts)
  /\ ~Pipeline_start_returns([s \in Steps |-> init_returns(opened[s])])

\* C38, as stated: when the init() of a step fails during Pipeline.start(),
\* Pipeline.is_running is false afterwards, the steps after the failing one
\* have never been started, the steps before it are running with a live
\* task, and no step was cleaned up by the call.
C38_FailedStartNotRunning ==
  [][\A opened \in [Steps -> BOOLEAN] :
       Pipeline_start_fails(opened) =>
         /\ ~Pipeline_is_running'
         /\ \A s \in After(FailsAt(opened)) :
              ~is_running'[s] /\ _task'[s] = None /\ init_ok'[s] = None
         /\ \A s \in Before(FailsAt(opened)) :
              is_running'[s] /\ _task'[s] = "pending"
         /\ cleanups' = cleanups]_vars

\* The _message_loop tasks of step s that are alive.
Workers(s) == (IF _task[s] = "pending" THEN 1 ELSE 0) + orphans[s]

\* C39: whatever start() and stop() calls a step was given, at most one
\* _message_loop task of it is alive, and none is while the step is not
\* running: start() on a running step made no second task, and stop() left
\* none alive.
C39_OneWorker ==
  \A s \in Steps :
    /\ Workers(s) <= 1
    /\ ~is_running[s] => Workers(s) = 0

\* Every message ever put on queue q, in order.
Content(q) == IF q.end = "input" THEN enq[q.step] ELSE own_output[q.step]

\* What step s forwarded in this step of the run.
Put(s) == SubSeq(forwarded'[s], Len(forwarded[s]) + 1, Len(forwarded'[s]))

\* C40: a step has one output queue at a time. What "A" forwards is put on
\* the queue its output_queue names then, the last one assigned by
\* connect_steps or by set_output_queue, and on no other queue: once the
\* output is assigned away from "B", "B" receives nothing more from "A".
\* Pipeline.connections only grows: it keeps the pair ("A", "B") whatever
\* the output of "A" is assigned to later.
C40_OneOutput ==
  /\ [][forwarded'["A"] # forwarded["A"] =>
          \A q \in Queues \ {InputOf("A")} :
            Content(q)' = Content(q) \o
                            (IF q = output_queue["A"] THEN Put("A") ELSE <<>>)]_vars
  /\ [][SubSeq(connections', 1, Len(connections)) = connections]_vars

\* "A" was connected to "B" and forwarded to it; its output was then assigned
\* to another queue, which received what "A" forwarded next, while the
\* connections still say that "A" feeds "B".
C40_Witness ==
  /\ connections = <<<<"A", "B">>>>
  /\ output_queue["A"] = OutputOf("B")
  /\ enq["B"] # <<>>
  /\ own_output["B"] # <<>>
  /\ forwarded["A"] = enq["B"] \o own_output["B"]

====
